---- MODULE Spec2Model ----
(***************************************************************************)
(* Model of calculate.py: the assumptions loader (load_assumptions), the   *)
(* two calculators, compare_land_use and the standalone program.           *)
(*                                                                         *)
(* Floats are modelled as exact, normalised rationals [num, den]; every    *)
(* value the model produces (small integers, their quotient by 10000 and   *)
(* products of those) is far from the range where rounding could merge or  *)
(* split two of them.                                                      *)
(*                                                                         *)
(* A document's text is modelled as the sequence of its inline-code spans  *)
(* of the form `<number><whitespace><unit>`; a number is the sequence of   *)
(* its comma-separated digit groups.  Text that no pattern can touch is    *)
(* left out.                                                               *)
(***************************************************************************)
EXTENDS Integers, Sequences, FiniteSets, TLC

\* ------------------------------------------------------------- bounds
\* Most inline-code spans in a document given to the loader.
MaxDocLen == 3
\* Most comma-separated digit groups in a written number.
MaxGroups == 3

\* ------------------------------------------------------------- state
VARIABLES
    doc,          \* the state of the document at `path`
    path,         \* the source path the loads of this run use
    pc,           \* where the caller's thread is
    call,         \* the operation in progress (or last finished) and its arguments
    assumptions,  \* compare_land_use's local
    solar,        \* compare_land_use's local
    co2,          \* compare_land_use's local
    result,       \* the program's `result`
    ret,          \* what the call returned, or the exception that left it
    stderr,       \* lines written to the error stream during the call
    stdout,       \* lines written to the output stream during the call
    readLog,      \* history: the document states the call has read, in order
    edited,       \* history: another party changed the document during the call
    memo          \* history: one earlier finished call, its reads and its outcome

vars == <<doc, path, pc, call, assumptions, solar, co2, result, ret, stderr,
          stdout, readLog, edited, memo>>

frame == <<assumptions, solar, co2, result>>

\* ------------------------------------------------------------- floats
Abs(x) == IF x < 0 THEN -x ELSE x

RECURSIVE GCD(_, _)
GCD(a, b) == IF b = 0 THEN a ELSE GCD(b, a % b)

\* The float n/d, normalised so that equal values are equal records.
Rat(n, d) ==
    LET g == GCD(Abs(n), Abs(d))
    IN  [num |-> n \div g, den |-> d \div g]

\* Float product a * b (cross-cancelled before multiplying).
RatMul(a, b) ==
    LET g1 == GCD(Abs(a.num), b.den)
        g2 == GCD(Abs(b.num), a.den)
    IN  IF a.num = 0 \/ b.num = 0 THEN [num |-> 0, den |-> 1]
        ELSE [num |-> (a.num \div g1) * (b.num \div g2),
              den |-> (a.den \div g2) * (b.den \div g1)]

\* Float quotient a / n for a whole number n > 0.
RatDiv(a, n) == RatMul(a, Rat(1, n))

\* ------------------------------------------------------------- documents
DefaultPath == "ASSUMPTIONS.md"
Paths == {DefaultPath, "docs/other.md"}

\* The unit strings of the three patterns, and a near miss (plain 2 for the
\* superscript two) that no pattern accepts.
SolarUnit == "kWh/m²/year"
Co2Unit == "kg CO₂/tree/year"
DensityUnit == "trees/hectare"
NearMissUnit == "kWh/m2/year"
Units == {SolarUnit, Co2Unit, DensityUnit}

\* 1, 1,500, 1,500,500, ... with k digit groups.
Thousands(k) == [i \in 1..k |-> IF i = 1 THEN <<1>> ELSE <<5, 0, 0>>]

\* The numbers written in documents: 0, and 1 followed by up to
\* MaxGroups - 1 comma groups.
Numerals == {<< <<0>> >>} \cup {Thousands(k) : k \in 1..MaxGroups}

\* An inline-code span `<num> <unit>`.
Items == [num : Numerals, unit : Units] \cup [num : {Thousands(1)}, unit : {NearMissUnit}]

RECURSIVE SeqsUpTo(_, _)
SeqsUpTo(S, n) ==
    IF n = 0 THEN {<<>>}
    ELSE LET shorter == SeqsUpTo(S, n - 1)
         IN  shorter \cup {Append(s, x) : s \in {t \in shorter : Len(t) = n - 1}, x \in S}

\* What open()/read() of the document can do: FileNotFoundError, another
\* OSError (PermissionError, IsADirectoryError), a UnicodeDecodeError from
\* read(), or the text.
Missing == [status |-> "FileNotFoundError", content |-> <<>>]
Unreadable == {[status |-> s, content |-> <<>>] :
                  s \in {"PermissionError", "IsADirectoryError", "UnicodeDecodeError"}}
Readable(c) == [status |-> "ok", content |-> c]

LoaderDocs == {Missing} \cup Unreadable \cup {Readable(c) : c \in SeqsUpTo(Items, MaxDocLen)}

\* ------------------------------------------------------------- load_assumptions
FieldNames == {"solar_output_kwh_per_m2_year", "co2_kg_per_tree_year",
               "trees_per_hectare", "trees_per_m2"}

\* Python's None.
None == [none |-> TRUE]

\* The value of a call that raised.
NoValue == [none |-> FALSE]

\* assumptions = {}
EmptyDict == [k \in {} |-> Rat(0, 1)]

\* assumptions[k] = v
Put(d, k, v) == [x \in DOMAIN d \cup {k} |-> IF x = k THEN v ELSE d[x]]

\* except Exception: every failure of the read is caught.
CaughtAny(status) == status # "ok"

\* except FileNotFoundError: the only exception the loader catches.
Caught(status) == status = "FileNotFoundError"

\* The warning with the default document's name written into it.
WarningFixedName(file_path) ==
    [stream |-> "stderr", text |-> "not found, using default assumptions", names |-> DefaultPath]

\* print(f"Warning: {file_path} not found, using default assumptions.", file=sys.stderr)
Warning(file_path) == [stream |-> "stderr", text |-> "not found, using default assumptions", names |-> file_path]

\* The four literals of the not-found branch.
NotFoundDefaults ==
    Put(Put(Put(Put(EmptyDict,
        "solar_output_kwh_per_m2_year", Rat(180, 1)),
        "co2_kg_per_tree_year", Rat(22, 1)),
        "trees_per_hectare", Rat(1000, 1)),
        "trees_per_m2", Rat(1, 10))

\* The number part of the three patterns, \d+(?:,\d+)? : one digit group,
\* optionally followed by one comma and a second digit group.
NumberPattern(num) ==
    /\ Len(num) \in {1, 2}
    /\ \A i \in 1..Len(num) : Len(num[i]) >= 1

\* `(\d+(?:,\d+)?)\s*<unit>` matched at one inline-code span.
PatternMatches(unit, item) == NumberPattern(item.num) /\ item.unit = unit

\* The last match instead of the first.
re_search_last(unit, content) ==
    LET hits == {i \in 1..Len(content) : PatternMatches(unit, content[i])}
    IN  IF hits = {} THEN 0 ELSE CHOOSE i \in hits : \A j \in hits : i >= j

\* re.search(pattern, content): the index of the first span the pattern
\* matches, 0 for None.
re_search(unit, content) ==
    LET hits == {i \in 1..Len(content) : PatternMatches(unit, content[i])}
    IN  IF hits = {} THEN 0 ELSE CHOOSE i \in hits : \A j \in hits : i <= j

\* match.group(1).replace(',', ''): the digit groups run together.
RECURSIVE StripCommas(_)
StripCommas(num) == IF num = <<>> THEN <<>> ELSE Head(num) \o StripCommas(Tail(num))

RECURSIVE DigitsValue(_)
DigitsValue(digits) ==
    IF digits = <<>> THEN 0
    ELSE 10 * DigitsValue(SubSeq(digits, 1, Len(digits) - 1)) + digits[Len(digits)]

\* float(value) of a string of digits.
float(digits) == Rat(DigitsValue(digits), 1)

\* The else branches of the three searches.
SolarDefault == Rat(180, 1)
Co2Default == Rat(22, 1)
DensityDefault == Rat(1000, 1)

\* One search: the parsed number of the first match, or the field's default.
Extract(unit, default, content) ==
    LET m == re_search(unit, content)
    IN  IF m # 0 THEN float(StripCommas(content[m].num)) ELSE default

\* The derivation with a hectare taken for 1000 square metres.
DeriveTreesPerM2_Thousand(given) ==
    Put(given, "trees_per_m2", RatDiv(given["trees_per_hectare"], 1000))

\* assumptions['trees_per_m2'] = assumptions['trees_per_hectare'] / 10000.0
DeriveTreesPerM2(given) ==
    Put(given, "trees_per_m2", RatDiv(given["trees_per_hectare"], 10000))

\* The body of load_assumptions after a successful read.
ParseContent(content) ==
    DeriveTreesPerM2(
        Put(Put(Put(EmptyDict,
            "solar_output_kwh_per_m2_year", Extract(SolarUnit, SolarDefault, content)),
            "co2_kg_per_tree_year", Extract(Co2Unit, Co2Default, content)),
            "trees_per_hectare", Extract(DensityUnit, DensityDefault, content)))

\* load_assumptions keeping the mapping of an earlier load in a module-level
\* cache and answering from it.
load_assumptions_cached(file_path, d) ==
    IF memo # None /\ memo.call.op = "load_assumptions" /\ memo.ret.raised = "none"
    THEN [raised |-> "none", value |-> memo.ret.value, err |-> <<>>]
    ELSE IF d.status = "ok"
    THEN [raised |-> "none", value |-> ParseContent(d.content), err |-> <<>>]
    ELSE IF Caught(d.status)
    THEN [raised |-> "none", value |-> NotFoundDefaults, err |-> <<Warning(file_path)>>]
    ELSE [raised |-> d.status, value |-> EmptyDict, err |-> <<>>]

\* load_assumptions(file_path) when the document at file_path is in state d:
\* the exception that leaves the call ("none" when it returns), the returned
\* mapping and the lines written to the error stream.
load_assumptions(file_path, d) ==
    IF d.status = "ok"
    THEN [raised |-> "none", value |-> ParseContent(d.content), err |-> <<>>]
    ELSE IF Caught(d.status)
    THEN [raised |-> "none", value |-> NotFoundDefaults, err |-> <<Warning(file_path)>>]
    ELSE [raised |-> d.status, value |-> EmptyDict, err |-> <<>>]

\* ------------------------------------------------------------- calculators
\* The areas callers pass (no validation is performed on area_m2).
Areas == {2, 1000}

\* `if assumptions is None: assumptions = load_assumptions()`: the mapping
\* the calculator works with, the error-stream lines of the load and the
\* document states it read.
Obtain(given, d) ==
    IF given = None
    THEN LET l == load_assumptions(DefaultPath, d)
         IN  [raised |-> l.raised, value |-> l.value, err |-> l.err, reads |-> <<d>>]
    ELSE [raised |-> "none", value |-> given, err |-> <<>>, reads |-> <<>>]

\* calculate_solar_energy(area_m2, assumptions) with the document in state d.
calculate_solar_energy(area, given, d) ==
    LET a == Obtain(given, d)
    IN  [raised |-> a.raised,
         value  |-> IF a.raised # "none" THEN NoValue
                    ELSE LET solar_output == a.value["solar_output_kwh_per_m2_year"]
                         IN  RatMul(solar_output, Rat(area, 1)),
         err    |-> a.err,
         reads  |-> a.reads]

\* calculate_co2_sequestration loading its own assumptions whatever it is given.
calculate_co2_sequestration_reloading(area, given, d) ==
    LET a == Obtain(None, d)
    IN  [raised |-> a.raised,
         value  |-> IF a.raised # "none" THEN NoValue
                    ELSE RatMul(RatMul(a.value["trees_per_m2"], Rat(area, 1)),
                                a.value["co2_kg_per_tree_year"]),
         err    |-> a.err,
         reads  |-> a.reads]

\* calculate_co2_sequestration(area_m2, assumptions) with the document in state d.
calculate_co2_sequestration(area, given, d) ==
    LET a == Obtain(given, d)
    IN  [raised |-> a.raised,
         value  |-> IF a.raised # "none" THEN NoValue
                    ELSE LET trees_per_m2 == a.value["trees_per_m2"]
                             co2_per_tree == a.value["co2_kg_per_tree_year"]
                             total_trees  == RatMul(trees_per_m2, Rat(area, 1))
                         IN  RatMul(total_trees, co2_per_tree),
         err    |-> a.err,
         reads  |-> a.reads]

\* The dict compare_land_use returns.
ComparisonResult(area, s, c) ==
    [area_m2 |-> Rat(area, 1), solar_energy_kwh |-> s, co2_sequestration_kg |-> c]

\* The area of the standalone program's run.
DemoArea == 1000

\* f"{x:.1f}": x rounded to one decimal place (ties to even).
Fmt1(x) ==
    LET n == 10 * x.num
        q == n \div x.den
        r == n % x.den
        up == (2 * r > x.den) \/ (2 * r = x.den /\ q % 2 = 1)
    IN  Rat(IF up THEN q + 1 ELSE q, 10)

\* The three result lines and the blank line the program prints first.
ResultLines(r) ==
    << [text |-> "Area", value |-> r.area_m2],
       [text |-> "Solar energy output", value |-> Fmt1(r.solar_energy_kwh)],
       [text |-> "CO2 sequestration", value |-> Fmt1(r.co2_sequestration_kg)],
       [text |-> "", value |-> None] >>

\* "Assumptions used:" and the four raw values.
AssumptionLines(a) ==
    << [text |-> "Assumptions used:", value |-> None],
       [text |-> "Solar output", value |-> a["solar_output_kwh_per_m2_year"]],
       [text |-> "CO2 per tree", value |-> a["co2_kg_per_tree_year"]],
       [text |-> "Tree density", value |-> a["trees_per_hectare"]],
       [text |-> "=", value |-> a["trees_per_m2"]] >>

\* ------------------------------------------------------------- the caller
NoCall == [op |-> "none", area |-> 0, supplied |-> None]
NoRet == [raised |-> "none", value |-> None]

\* The caller is between calls: nothing in progress, streams empty.
Idle ==
    /\ pc = "idle"
    /\ call = NoCall
    /\ assumptions = None /\ solar = None /\ co2 = None /\ result = None
    /\ ret = NoRet
    /\ stderr = <<>> /\ stdout = <<>>
    /\ readLog = <<>> /\ edited = FALSE

\* A call of load_assumptions(path), start to end.
CallLoad ==
    /\ pc = "idle"
    /\ LET l == load_assumptions(path, doc)
       IN  /\ pc' = IF l.raised = "none" THEN "returned" ELSE "raised"
           /\ ret' = [raised |-> l.raised,
                      value |-> IF l.raised = "none" THEN l.value ELSE NoValue]
           /\ stderr' = stderr \o l.err
    /\ call' = [op |-> "load_assumptions", area |-> 0, supplied |-> None]
    /\ readLog' = Append(readLog, doc)
    /\ UNCHANGED <<doc, path, frame, stdout, edited, memo>>

\* The loader alone: any path, the document at it in any state, one call.
InitLoad ==
    /\ Idle
    /\ path \in Paths
    /\ doc \in LoaderDocs
    /\ memo = None

NextLoad == CallLoad

SpecLoad == InitLoad /\ [][NextLoad]_vars

\* ------------------------------------------------------------- properties of the loader
\* A call of load_assumptions has ended; FirstRead is the document state it read.
LoadDone == call.op = "load_assumptions" /\ pc \in {"returned", "raised"}
FirstRead == readLog[1]

\* The field each unit string feeds.
FieldOf(unit) ==
    IF unit = SolarUnit THEN "solar_output_kwh_per_m2_year"
    ELSE IF unit = Co2Unit THEN "co2_kg_per_tree_year"
    ELSE "trees_per_hectare"

\* The documented default of each field.
DocumentedDefault(unit) ==
    IF unit = SolarUnit THEN Rat(180, 1)
    ELSE IF unit = Co2Unit THEN Rat(22, 1)
    ELSE Rat(1000, 1)

DocumentedDefaultSet ==
    [solar_output_kwh_per_m2_year |-> Rat(180, 1), co2_kg_per_tree_year |-> Rat(22, 1),
     trees_per_hectare |-> Rat(1000, 1), trees_per_m2 |-> Rat(1, 10)]

\* The spans of a document that are the token of a unit: a number written as
\* digits with any number of comma groups, then the unit.
Tokens(unit, content) == {i \in 1..Len(content) : content[i].unit = unit}
FirstToken(unit, content) ==
    CHOOSE i \in Tokens(unit, content) : \A j \in Tokens(unit, content) : i <= j

\* The number a written numeral denotes: its digits, commas ignored.
Denotes(num) == DigitsValue(StripCommas(num))

\* The spans whose number has at most one comma.
OneCommaTokens(unit, content) == {i \in Tokens(unit, content) : Len(content[i].num) <= 2}
FirstOneCommaToken(unit, content) ==
    CHOOSE i \in OneCommaTokens(unit, content) : \A j \in OneCommaTokens(unit, content) : i <= j

IsZero(num) == \A g \in 1..Len(num) : \A k \in 1..Len(num[g]) : num[g][k] = 0

\* C1 as claimed: load_assumptions never raises; for every path and every
\* outcome of the read attempt it returns a complete four-field mapping.
C1_NeverRaises ==
    LoadDone => pc = "returned" /\ DOMAIN ret.value = FieldNames

\* C1 amended: load_assumptions returns a complete four-field mapping when
\* the document is missing or was read (any content); a read that fails for
\* another reason leaves the call as that exception.
C1_RaisesOnlyUnreadable ==
    LoadDone =>
        /\ (pc = "raised") <=> (FirstRead \in Unreadable)
        /\ pc = "raised" => ret.raised = FirstRead.status
        /\ pc = "returned" => ret.raised = "none" /\ DOMAIN ret.value = FieldNames

C1_Witness == LoadDone /\ pc = "raised" /\ FirstRead.status = "PermissionError"

\* C2: with the document missing, one call returns exactly the default set,
\* writes exactly one diagnostic line naming the path, and raises nothing.
C2_MissingGivesDefaults ==
    (LoadDone /\ FirstRead = Missing) =>
        /\ pc = "returned"
        /\ ret.value = DocumentedDefaultSet
        /\ Len(stderr) = 1
        /\ stderr[1].stream = "stderr" /\ stderr[1].names = path

C2_Witness == LoadDone /\ FirstRead = Missing /\ path # DefaultPath /\ Len(stderr) = 1

\* C3: every returned mapping has trees_per_m2 = trees_per_hectare / 10000.
C3_PerM2InSync ==
    (LoadDone /\ pc = "returned") =>
        ret.value["trees_per_m2"] = RatDiv(ret.value["trees_per_hectare"], 10000)

C3_Witness ==
    /\ LoadDone /\ pc = "returned" /\ FirstRead.status = "ok"
    /\ ret.value["trees_per_hectare"] = Rat(1500, 1)
    /\ ret.value["trees_per_m2"] = Rat(15, 100)

\* C4 as claimed: a field whose token is in the document, its number written
\* with any number of comma groups, gets that number's value.
C4_CommaNumbersParsed ==
    (LoadDone /\ FirstRead.status = "ok") =>
        \A unit \in Units :
            Tokens(unit, FirstRead.content) # {} =>
                ret.value[FieldOf(unit)] =
                    Rat(Denotes(FirstRead.content[FirstToken(unit, FirstRead.content)].num), 1)

\* C5 as claimed: each field whose token is absent gets its own default and
\* each field whose token is present gets the document's value, whatever
\* other tokens are present and in whatever order; no token at all gives the
\* full default set.
C5_IndependentSearches ==
    (LoadDone /\ FirstRead.status = "ok") =>
        /\ \A unit \in Units :
              ret.value[FieldOf(unit)] =
                  IF Tokens(unit, FirstRead.content) = {} THEN DocumentedDefault(unit)
                  ELSE Rat(Denotes(FirstRead.content[FirstToken(unit, FirstRead.content)].num), 1)
        /\ (\A unit \in Units : Tokens(unit, FirstRead.content) = {}) =>
              ret.value = DocumentedDefaultSet

\* C8 as claimed: all four fields of every returned mapping are > 0.
C8_AllPositive ==
    (LoadDone /\ pc = "returned") => \A f \in FieldNames : ret.value[f].num > 0

\* C8 amended: all four fields are >= 0; a base field is 0 exactly when the
\* first token the loader accepts for it (at most one comma) carries the
\* number 0, and trees_per_m2 is 0 exactly when trees_per_hectare is.
C8_PositiveUnlessZeroToken ==
    (LoadDone /\ pc = "returned") =>
        /\ \A f \in FieldNames : ret.value[f].num >= 0 /\ ret.value[f].den > 0
        /\ \A unit \in Units :
              (ret.value[FieldOf(unit)].num = 0) <=>
                  /\ FirstRead.status = "ok"
                  /\ OneCommaTokens(unit, FirstRead.content) # {}
                  /\ IsZero(FirstRead.content[FirstOneCommaToken(unit, FirstRead.content)].num)
        /\ (ret.value["trees_per_m2"].num = 0) <=> (ret.value["trees_per_hectare"].num = 0)

C8_Witness ==
    /\ LoadDone /\ pc = "returned"
    /\ ret.value["solar_output_kwh_per_m2_year"] = Rat(0, 1)
    /\ ret.value["trees_per_hectare"].num > 0

\* ------------------------------------------------------------- calls and the program, with the document changing
\* What another party can leave at the default path: nothing, a file the
\* caller may not read, an empty document, or a document with one span.
EditDocs ==
    {Missing, [status |-> "PermissionError", content |-> <<>>]}
        \cup {Readable(c) : c \in SeqsUpTo(Items, 1)}

\* The mappings callers hand to the calculators: none, or one they hold.
Supplied ==
    {None, NotFoundDefaults,
     ParseContent(<<[num |-> Thousands(2), unit |-> DensityUnit]>>)}

InProgress == {"compare_125", "compare_126", "compare_127", "compare_129",
               "main_139", "main_145"}
Finished == {"returned", "raised", "exited"}

\* Another party creates, rewrites, protects or deletes the document.
EditDocument ==
    /\ pc \in {"idle"} \cup InProgress
    /\ \E d \in EditDocs \ {doc} : doc' = d
    /\ edited' = (pc \in InProgress)
    /\ UNCHANGED <<path, pc, call, frame, ret, stderr, stdout, readLog, memo>>

\* How a step that ran `o` leaves the streams, the read history and, when
\* the exception leaves the call, the thread.
Effects(o, next) ==
    /\ stderr' = stderr \o o.err
    /\ readLog' = readLog \o o.reads
    /\ pc' = IF o.raised = "none" THEN next ELSE "raised"
    /\ ret' = IF o.raised = "none" THEN ret ELSE [raised |-> o.raised, value |-> NoValue]

\* A call of calculate_solar_energy(area, a), start to end.
CallSolar ==
    /\ pc = "idle"
    /\ \E area \in Areas, a \in Supplied :
          LET o == calculate_solar_energy(area, a, doc)
          IN  /\ call' = [op |-> "calculate_solar_energy", area |-> area, supplied |-> a]
              /\ stderr' = stderr \o o.err
              /\ readLog' = readLog \o o.reads
              /\ pc' = IF o.raised = "none" THEN "returned" ELSE "raised"
              /\ ret' = [raised |-> o.raised, value |-> o.value]
    /\ UNCHANGED <<doc, path, frame, stdout, edited, memo>>

\* A call of calculate_co2_sequestration(area, a), start to end.
CallCo2 ==
    /\ pc = "idle"
    /\ \E area \in Areas, a \in Supplied :
          LET o == calculate_co2_sequestration(area, a, doc)
          IN  /\ call' = [op |-> "calculate_co2_sequestration", area |-> area, supplied |-> a]
              /\ stderr' = stderr \o o.err
              /\ readLog' = readLog \o o.reads
              /\ pc' = IF o.raised = "none" THEN "returned" ELSE "raised"
              /\ ret' = [raised |-> o.raised, value |-> o.value]
    /\ UNCHANGED <<doc, path, frame, stdout, edited, memo>>

\* compare_land_use(area) is entered by a caller.
CallCompare ==
    /\ pc = "idle"
    /\ \E area \in Areas :
          call' = [op |-> "compare_land_use", area |-> area, supplied |-> None]
    /\ pc' = "compare_125"
    /\ UNCHANGED <<doc, path, frame, ret, stderr, stdout, readLog, edited, memo>>

\* The standalone program starts: result = compare_land_use(1000.0).
ProgramStart ==
    /\ pc = "idle"
    /\ call' = [op |-> "main", area |-> DemoArea, supplied |-> None]
    /\ pc' = "compare_125"
    /\ UNCHANGED <<doc, path, frame, ret, stderr, stdout, readLog, edited, memo>>

\* assumptions = load_assumptions()
Compare125 ==
    /\ pc = "compare_125"
    /\ LET l == load_assumptions(DefaultPath, doc)
           o == [raised |-> l.raised, err |-> l.err, reads |-> <<doc>>]
       IN  /\ Effects(o, "compare_126")
           /\ assumptions' = IF l.raised = "none" THEN l.value ELSE assumptions
    /\ UNCHANGED <<doc, path, call, solar, co2, result, stdout, edited, memo>>

\* solar = calculate_solar_energy(area_m2, assumptions)
Compare126 ==
    /\ pc = "compare_126"
    /\ LET o == calculate_solar_energy(call.area, assumptions, doc)
       IN  /\ Effects(o, "compare_127")
           /\ solar' = IF o.raised = "none" THEN o.value ELSE solar
    /\ UNCHANGED <<doc, path, call, assumptions, co2, result, stdout, edited, memo>>

\* co2 = calculate_co2_sequestration(area_m2, assumptions)
Compare127 ==
    /\ pc = "compare_127"
    /\ LET o == calculate_co2_sequestration(call.area, assumptions, doc)
       IN  /\ Effects(o, "compare_129")
           /\ co2' = IF o.raised = "none" THEN o.value ELSE co2
    /\ UNCHANGED <<doc, path, call, assumptions, solar, result, stdout, edited, memo>>

\* return {...}: to the caller, or into the program's `result`.  The frame's
\* locals are kept as they were at the return.
Compare129 ==
    /\ pc = "compare_129"
    /\ LET value == ComparisonResult(call.area, solar, co2)
       IN  IF call.op = "main"
           THEN result' = value /\ pc' = "main_139" /\ ret' = ret
           ELSE result' = result /\ pc' = "returned"
                /\ ret' = [raised |-> "none", value |-> value]
    /\ UNCHANGED <<doc, path, call, assumptions, solar, co2, stderr, stdout,
                   readLog, edited, memo>>

\* The program prints the area, the two figures and a blank line.
Main139 ==
    /\ pc = "main_139"
    /\ stdout' = stdout \o ResultLines(result)
    /\ pc' = "main_145"
    /\ UNCHANGED <<doc, path, call, frame, ret, stderr, readLog, edited, memo>>

\* assumptions = load_assumptions(), then the five lines under "Assumptions used:".
Main145 ==
    /\ pc = "main_145"
    /\ LET l == load_assumptions(DefaultPath, doc)
           o == [raised |-> l.raised, err |-> l.err, reads |-> <<doc>>]
       IN  /\ Effects(o, "exited")
           /\ stdout' = IF l.raised = "none" THEN stdout \o AssumptionLines(l.value)
                        ELSE stdout
    /\ UNCHANGED <<doc, path, call, frame, edited, memo>>

\* The caller goes on to its next call (a new run of the program starts
\* with empty streams); nothing of the finished call is kept.
Finish ==
    /\ pc \in Finished
    /\ pc' = "idle"
    /\ call' = NoCall
    /\ assumptions' = None /\ solar' = None /\ co2' = None /\ result' = None
    /\ ret' = NoRet
    /\ stderr' = <<>> /\ stdout' = <<>>
    /\ readLog' = <<>> /\ edited' = FALSE
    /\ UNCHANGED <<doc, path, memo>>

Init ==
    /\ Idle
    /\ path = DefaultPath
    /\ doc \in EditDocs
    /\ memo = None

Next ==
    \/ EditDocument
    \/ CallLoad
    \/ CallSolar
    \/ CallCo2
    \/ CallCompare
    \/ ProgramStart
    \/ Compare125
    \/ Compare126
    \/ Compare127
    \/ Compare129
    \/ Main139
    \/ Main145
    \/ Finish

Spec == Init /\ [][Next]_vars

\* A finished call is remembered (history only), and the caller goes on.
Remember ==
    /\ pc \in {"returned", "raised"}
    /\ memo' = [call |-> call, reads |-> readLog, ret |-> ret]
    /\ pc' = "idle"
    /\ call' = NoCall
    /\ assumptions' = None /\ solar' = None /\ co2' = None /\ result' = None
    /\ ret' = NoRet
    /\ stderr' = <<>> /\ stdout' = <<>>
    /\ readLog' = <<>> /\ edited' = FALSE
    /\ UNCHANGED <<doc, path>>

\* Any sequence of calls of the four operations, the document changing in between.
NextCalls ==
    \/ EditDocument
    \/ CallLoad
    \/ CallSolar
    \/ CallCo2
    \/ CallCompare
    \/ Compare125
    \/ Compare126
    \/ Compare127
    \/ Compare129
    \/ Finish
    \/ Remember

SpecCalls == Init /\ [][NextCalls]_vars

\* ------------------------------------------------------------- properties of the calls and the program
\* `value` is what one snapshot of the document gives for the call's area.
FromOneSnapshot(value) ==
    /\ Len(readLog) = 1
    /\ value.area_m2 = Rat(call.area, 1)
    /\ LET a == load_assumptions(DefaultPath, readLog[1]).value
       IN  /\ value.solar_energy_kwh =
                  RatMul(a["solar_output_kwh_per_m2_year"], Rat(call.area, 1))
           /\ value.co2_sequestration_kg =
                  RatMul(RatMul(a["trees_per_m2"], Rat(call.area, 1)), a["co2_kg_per_tree_year"])

\* C6: compare_land_use reads the document exactly once and both figures of
\* its result come from that one read, whatever happens to the document
\* during the call; area_m2 is the area supplied.
C6_OneSnapshot ==
    /\ (call.op = "compare_land_use" /\ pc = "returned") => FromOneSnapshot(ret.value)
    /\ (call.op = "main" /\ pc = "main_139") => FromOneSnapshot(result)

C6_Witness ==
    /\ call.op = "compare_land_use" /\ pc = "returned" /\ edited
    /\ readLog = <<Readable(<<[num |-> Thousands(2), unit |-> SolarUnit]>>)>>
    /\ doc = Missing
    /\ ret.value.solar_energy_kwh = Rat(3000, 1)

\* C7 as claimed: the four assumption values the program prints are the
\* values its two figures were computed from.
C7_PrintedAreUsed ==
    (call.op = "main" /\ pc = "exited") =>
        SubSeq(stdout, Len(stdout) - 4, Len(stdout)) = AssumptionLines(assumptions)

\* C10 as claimed: a run of the program with the document missing throughout
\* writes a single diagnostic line naming the path, and completes with its
\* result printed.
C10_OneDiagnostic ==
    (call.op = "main" /\ pc \in Finished /\ ~edited /\ doc = Missing) =>
        /\ pc = "exited"
        /\ stdout = ResultLines(result) \o AssumptionLines(DocumentedDefaultSet)
        /\ Len(stderr) = 1
        /\ stderr[1].names = DefaultPath

\* C9: two calls of the same operation with the same arguments that read the
\* same document state(s) end the same way, whatever was called in between;
\* and no call writes the document: unless another party changed it during
\* the call, it is as the call last read it.
C9_SameInputsSameResult ==
    /\ (pc \in {"returned", "raised"} /\ memo # None /\ memo.call = call
            /\ memo.reads = readLog)
          => memo.ret = ret
    /\ (pc # "idle" /\ ~edited /\ readLog # <<>>) => doc = readLog[Len(readLog)]

C9_Witness ==
    /\ pc = "returned" /\ memo # None /\ memo.call = call /\ memo.reads = readLog
    /\ call.op = "compare_land_use" /\ edited
    /\ readLog[1].status = "ok" /\ doc # readLog[1]

====
